---- MODULE Spec2Model ----
(***************************************************************************)
(* Model of the download queue of yt-dlp-gui:                              *)
(*   src/services/queue_manager.py    QueueManager, QueueItem              *)
(*   src/services/download_manager.py DownloadManager.start_download_thread*)
(*                                                                         *)
(* Threads of the program and how they appear here:                        *)
(*   - caller threads (the Tk main loop, UI callbacks): cpc[c];            *)
(*   - worker threads created by _start_worker: wpc[w], witem[w];          *)
(*   - one download thread per start_download_thread call: dl[j].          *)
(* A step is one statement (or one critical section of self._lock, which   *)
(* touches only lock-protected state and item fields and never blocks      *)
(* inside, so no other thread can observe its middle).  The reads the code *)
(* makes without the lock (_paused, _stop_event, item.status,              *)
(* download_complete, is_alive) are each a step of their own.              *)
(*                                                                         *)
(* Specifications: Spec (one caller thread, as main.py runs the program),  *)
(* ConcurrentSpec (two caller threads), CallSpec and RemoveSpec (the       *)
(* caller keeps what get_all_items and remove_item return), PauseSpec (no  *)
(* retry_item, no remove_item), StoreSpec (clear_completed on any store),  *)
(* FairSpec and FairQuietSpec (started threads keep running).              *)
(***************************************************************************)
EXTENDS Naturals, Sequences, FiniteSets, TLC

\* ---- bounds of the model ----
MaxJobs == 2        \* add_item is called at most this many times
MaxItems == 3       \* the same, where callers only add and remove jobs
MaxWorkers == 2     \* thread objects that exist at the same time
NumCallers == 2     \* caller threads
NumUrls == 2        \* distinct URLs callers submit
MaxCalls == 2       \* callback calls of one job that are counted

\* the caller thread that runs the Tk main loop (main.py: app.run())
MainThread == 1

Jobs == 1..MaxJobs
Items == 1..MaxItems    \* every id a QueueItem can have
Workers == 1..MaxWorkers
Callers == 1..NumCallers
Urls == 1..NumUrls

\* DownloadStatus (queue_manager.py:13-20)
QUEUED == "QUEUED"
DOWNLOADING == "DOWNLOADING"
PAUSED == "PAUSED"
COMPLETED == "COMPLETED"
ERROR == "ERROR"
CANCELLED == "CANCELLED"
DownloadStatus == {QUEUED, DOWNLOADING, PAUSED, COMPLETED, ERROR, CANCELLED}

None == "None"
\* percentages a progress hook can report (download_manager.py:134-156)
Percents == {0, 50, 100}
\* messages the code stores in error_message
MsgFailed == "Erro no download"
MsgInProgress == "Download ja esta em andamento"
\* str(e) of the RuntimeError Thread.start() raises
MsgCantStart == "can't start new thread"

VARIABLES
    queue,              \* self.queue: sequence of job ids
    current_item,       \* self.current_item: a job id, or 0 for None
    lock,               \* self._lock: 0 when free, else the caller holding it
    paused,             \* self._paused
    stop_event,         \* self._stop_event
    worker_thread,      \* self._worker_thread: a worker slot, or 0 for None
    download_manager,   \* self._download_manager is set
    next_id,            \* the next fresh item id (uuid4)
    status, progress, error_message, file_path, url,   \* QueueItem fields
    wpc, witem,         \* worker threads: position, local variable item
    cpc, carg,          \* caller threads: position, item_id argument
    dl,                 \* download thread of a job
    download_complete,  \* the Event of the job's _process_item call
    active_downloads,   \* DownloadManager._active_downloads (its keys)
    exec_log,           \* history: jobs handed to start_download_thread
    behind,             \* history: the jobs pending behind the job a worker
                        \* popped and has not yet handed to the executor
    pause_hist,         \* history: pause()/resume() seen by a current job
    retry_from,         \* history: the status a job had when retry_item began
    ret,                \* what the last observed call returned: <<op, id, value>>
    removed,            \* history: jobs an observed remove_item took from queue
    fired,              \* history: calls of a job's complete_callback
    notified,           \* history: the success flags passed to item.on_complete
    stop_for            \* history: the job remove_item set the stop signal for

store == <<queue, current_item, paused, stop_event>>
fields == <<status, progress, error_message, file_path, url>>
workers == <<wpc, witem, worker_thread>>
callers == <<cpc, carg, lock>>
executor == <<dl, download_complete, active_downloads>>
notes == <<fired, notified, stop_for>>
history == <<exec_log, behind, pause_hist, retry_from, ret, removed, notes>>
vars == <<store, fields, workers, callers, executor, history,
          download_manager, next_id>>

\* QueueManager.__init__ (queue_manager.py:49-57); no item exists yet, the
\* fields of a job are the QueueItem defaults (queue_manager.py:31-34)
Init ==
    /\ queue = <<>>
    /\ current_item = 0
    /\ lock = 0
    /\ paused = FALSE
    /\ stop_event = FALSE
    /\ worker_thread = 0
    /\ download_manager = FALSE
    /\ next_id = 1
    /\ status = [j \in Items |-> QUEUED]
    /\ progress = [j \in Items |-> 0]
    /\ error_message = [j \in Items |-> None]
    /\ file_path = [j \in Items |-> None]
    /\ url = [j \in Items |-> 0]
    /\ wpc = [w \in Workers |-> "dead"]
    /\ witem = [w \in Workers |-> 0]
    /\ cpc = [c \in Callers |-> "idle"]
    /\ carg = [c \in Callers |-> 0]
    /\ dl = [j \in Items |-> "none"]
    /\ download_complete = [j \in Items |-> FALSE]
    /\ active_downloads = {}
    /\ exec_log = <<>>
    /\ behind = [w \in Workers |-> {}]
    /\ pause_hist = [j \in Items |-> "no"]
    /\ retry_from = [c \in Callers |-> None]
    /\ ret = <<>>
    /\ removed = {}
    /\ fired = [j \in Items |-> 0]
    /\ notified = [j \in Items |-> <<>>]
    /\ stop_for = 0

\* ---- helpers ----
Range(s) == {s[i] : i \in DOMAIN s}

\* list.remove(item): the sequence without its first occurrence of x
RECURSIVE Remove(_, _)
Remove(s, x) ==
    IF s = <<>> THEN <<>>
    ELSE IF Head(s) = x THEN Tail(s)
    ELSE <<Head(s)>> \o Remove(Tail(s), x)

Created == 1..(next_id - 1)

\* history: one more call of complete_callback of job j
Fired(j) == [fired EXCEPT ![j] = IF @ < MaxCalls THEN @ + 1 ELSE @]

\* history: item.on_complete(item.id, success, ...) of job j was called
Notified(j, success) ==
    [notified EXCEPT ![j] = IF Len(@) < MaxCalls THEN Append(@, success) ELSE @]

\* Thread.is_alive(): started and not yet terminated
is_alive(w) == wpc[w] \notin {"new", "dead"}

\* "not self._worker_thread or not self._worker_thread.is_alive()"
NoLiveWorker == worker_thread = 0 \/ ~is_alive(worker_thread)

\* get_item (queue_manager.py:123-129): the id if it is found, else 0
GetItem(id) ==
    IF id \in Range(queue) THEN id
    ELSE IF current_item # 0 /\ current_item = id THEN id
    ELSE 0

\* a get_all_items that lists the pending jobs before the current job
GetAllItemsPendingFirst ==
    IF current_item # 0 THEN queue \o <<current_item>> ELSE queue

\* get_all_items (queue_manager.py:138-142): a new sequence
GetAllItems ==
    IF current_item # 0 THEN <<current_item>> \o queue ELSE queue

\* ---- facade operations (caller threads) ----

\* set_download_manager (queue_manager.py:59-61)
set_download_manager(c) ==
    /\ cpc[c] = "idle"
    /\ ~download_manager
    /\ download_manager' = TRUE
    /\ UNCHANGED <<store, fields, workers, callers, executor, history, next_id>>

\* the URLs a caller submits next: those already submitted and one new URL
\* (URLs are interchangeable, so the new one is the least unused)
FreshUrls == {u \in Urls : \A v \in 1..(u - 1) : \E j \in Created : url[j] = v}

\* an add_item that puts the new job at the head of the pending sequence
add_item_front(c, u) ==
    /\ cpc[c] = "idle"
    /\ next_id <= MaxItems
    /\ u \in FreshUrls
    /\ lock = 0
    /\ LET id == next_id IN
        /\ url' = [url EXCEPT ![id] = u]
        /\ queue' = <<id>> \o queue
        /\ next_id' = id + 1
    /\ cpc' = [cpc EXCEPT ![c] = "sw_check"]
    /\ UNCHANGED <<current_item, paused, stop_event, status, progress,
                   error_message, file_path, workers, carg, lock, executor,
                   history, download_manager>>

\* add_item, lines 88-103: a fresh id, a QueueItem with the default fields,
\* appended under the lock; the caller goes on to line 108
add_item(c, u) ==
    /\ cpc[c] = "idle"
    /\ next_id <= MaxItems
    /\ u \in FreshUrls
    /\ lock = 0
    /\ LET id == next_id IN
        /\ url' = [url EXCEPT ![id] = u]
        /\ queue' = Append(queue, id)
        /\ next_id' = id + 1
    /\ cpc' = [cpc EXCEPT ![c] = "sw_check"]
    /\ UNCHANGED <<current_item, paused, stop_event, status, progress,
                   error_message, file_path, workers, carg, lock, executor,
                   exec_log, behind, pause_hist, retry_from, ret, removed, notes,
                   download_manager>>

\* The four facade operations whose return value a claim speaks of come in
\* three parts: X_locked is the body of the operation; X is the call whose
\* result the caller drops; X_returns is the call whose result the caller
\* keeps in ret (and the following of removed jobs in removed).

\* get_item (queue_manager.py:113-129): a read under the lock
get_item_locked(c, id) ==
    /\ cpc[c] = "idle"
    /\ lock = 0
    /\ id \in Items
    /\ UNCHANGED <<store, fields, workers, callers, executor, exec_log, behind,
                   pause_hist, retry_from, download_manager, next_id>>
get_item(c, id) == get_item_locked(c, id) /\ UNCHANGED <<ret, removed, notes>>

\* get_all_items (queue_manager.py:131-142): a read under the lock
get_all_items_locked(c) ==
    /\ cpc[c] = "idle"
    /\ lock = 0
    /\ UNCHANGED <<store, fields, workers, callers, executor, exec_log, behind,
                   pause_hist, retry_from, download_manager, next_id>>
get_all_items(c) == get_all_items_locked(c) /\ UNCHANGED <<ret, removed, notes>>
get_all_items_returns(c) ==
    /\ ret' = <<"get_all_items", 0, GetAllItems>>
    /\ UNCHANGED <<removed, notes>>
    /\ get_all_items_locked(c)

\* history: the job's completion callback has fired, or a caller removed
\* the job; pause() and resume() no longer concern it
HistForget(j) == [pause_hist EXCEPT ![j] = "no"]

\* the completion callback of job j has not fired yet
OutcomeUnknown(j) == ~download_complete[j] /\ dl[j] \in {"none", "running"}

\* pause (queue_manager.py:144-150)
pause(c) ==
    /\ cpc[c] = "idle"
    /\ lock = 0
    /\ paused' = TRUE
    /\ IF current_item # 0
         THEN /\ status' = [status EXCEPT ![current_item] = PAUSED]
              /\ pause_hist' = IF OutcomeUnknown(current_item)
                    THEN [pause_hist EXCEPT ![current_item] = "paused"]
                    ELSE pause_hist
         ELSE UNCHANGED <<status, pause_hist>>
    /\ UNCHANGED <<queue, current_item, stop_event, progress, error_message,
                   file_path, url, workers, callers, executor, exec_log,
                   behind, retry_from, ret, removed, notes, download_manager, next_id>>

\* resume, lines 154-155: the flag is cleared under the lock
resume(c) ==
    /\ cpc[c] = "idle"
    /\ lock = 0
    /\ paused' = FALSE
    /\ pause_hist' = [j \in Items |->
            IF pause_hist[j] = "paused" THEN "resumed" ELSE pause_hist[j]]
    /\ cpc' = [cpc EXCEPT ![c] = "resume_clear"]
    /\ UNCHANGED <<queue, current_item, stop_event, fields, workers, carg,
                   lock, executor, exec_log, behind, retry_from, ret, removed, notes,
                   download_manager, next_id>>

\* resume, line 156: self._stop_event.clear()
resume_clear(c) ==
    /\ cpc[c] = "resume_clear"
    /\ stop_event' = FALSE
    /\ stop_for' = 0
    /\ cpc' = [cpc EXCEPT ![c] = "sw_check"]
    /\ UNCHANGED <<queue, current_item, paused, fields, workers, carg, lock,
                   executor, exec_log, behind, pause_hist, retry_from, ret,
                   removed, fired, notified, download_manager, next_id>>

\* retry_item, lines 172-182: what runs once get_item has returned item
\* (0 for None); the new values of the item fields and of the queue
RetryStatus(item) == IF item # 0 THEN [status EXCEPT ![item] = QUEUED] ELSE status
RetryProgress(item) == IF item # 0 THEN [progress EXCEPT ![item] = 0] ELSE progress
RetryError(item) ==
    IF item # 0 THEN [error_message EXCEPT ![item] = None] ELSE error_message
RetryQueue(item) ==
    IF item = 0 THEN queue
    ELSE Append(IF item \in Range(queue) THEN Remove(queue, item) ELSE queue, item)

\* a retry_item whose lock can be taken again by the thread that holds it
retry_item_reentrant(c, id) ==
    /\ cpc[c] = "idle"
    /\ lock = 0
    /\ status' = RetryStatus(GetItem(id))
    /\ progress' = RetryProgress(GetItem(id))
    /\ error_message' = RetryError(GetItem(id))
    /\ queue' = RetryQueue(GetItem(id))
    /\ UNCHANGED <<current_item, paused, stop_event, file_path, url,
                   workers, callers, executor, history, download_manager,
                   next_id>>

\* retry_item (queue_manager.py:163-182).  Line 170 takes self._lock, a
\* threading.Lock (line 53), and line 171 calls get_item, which takes the
\* same lock at line 123: the caller goes on only when the lock is free.
retry_item(c, id) ==
    IF cpc[c] = "idle"
    THEN /\ lock = 0
         /\ lock' = c
         /\ cpc' = [cpc EXCEPT ![c] = "retry_get_item"]
         /\ carg' = [carg EXCEPT ![c] = id]
         /\ retry_from' = [retry_from EXCEPT ![c] = status[id]]
         /\ UNCHANGED <<store, fields, workers, executor, exec_log, behind,
                        pause_hist, ret, removed, notes, download_manager, next_id>>
    ELSE /\ cpc[c] = "retry_get_item"
         /\ carg[c] = id
         /\ lock = 0
         /\ status' = RetryStatus(GetItem(id))
         /\ progress' = RetryProgress(GetItem(id))
         /\ error_message' = RetryError(GetItem(id))
         /\ queue' = RetryQueue(GetItem(id))
         /\ cpc' = [cpc EXCEPT ![c] = "idle"]
         /\ carg' = [carg EXCEPT ![c] = 0]
         /\ retry_from' = [retry_from EXCEPT ![c] = None]
         /\ UNCHANGED <<current_item, paused, stop_event, file_path, url,
                        workers, lock, executor, exec_log, behind, pause_hist,
                        ret, removed, notes, download_manager, next_id>>

\* a remove_item that answers True for every id it was ever given
RemoveItemKnown(id) == id \in Created

\* a remove_item that drops the head of the pending sequence
RemoveItemHead(id) == IF id \in Range(queue) THEN Tail(queue) ELSE queue

\* remove_item (queue_manager.py:184-209): its return value
RemoveItemResult(id) ==
    id \in Range(queue) \/ (current_item # 0 /\ current_item = id)

\* remove_item, lines 196-200: the pending sequence after the loop
RemoveItemQueue(id) == IF id \in Range(queue) THEN Remove(queue, id) ELSE queue

\* remove_item (queue_manager.py:184-209)
remove_item_locked(c, id) ==
    /\ cpc[c] = "idle"
    /\ lock = 0
    /\ IF id \in Range(queue)
         THEN /\ queue' = RemoveItemQueue(id)
              /\ UNCHANGED <<status, stop_event, stop_for>>
         ELSE IF current_item # 0 /\ current_item = id
         THEN /\ status' = [status EXCEPT ![id] = CANCELLED]
              /\ stop_event' = TRUE
              /\ stop_for' = id
              /\ UNCHANGED queue
         ELSE UNCHANGED <<queue, status, stop_event, stop_for>>
    /\ pause_hist' = IF RemoveItemResult(id) THEN HistForget(id) ELSE pause_hist
    /\ UNCHANGED <<current_item, paused, progress, error_message, file_path,
                   url, workers, callers, executor, exec_log, behind,
                   retry_from, download_manager, next_id>>
remove_item(c, id) ==
    remove_item_locked(c, id) /\ UNCHANGED <<ret, removed, fired, notified>>
remove_item_returns(c, id) ==
    /\ ret' = <<"remove_item", id, RemoveItemResult(id)>>
    /\ removed' = IF id \in Range(queue) THEN removed \cup {id} ELSE removed
    /\ UNCHANGED <<fired, notified>>
    /\ remove_item_locked(c, id)

NotCompleted(j) == status[j] # COMPLETED
IsCompleted(j) == status[j] = COMPLETED

\* clear_completed, lines 220-223: the new self.queue
ClearCompletedQueue == SelectSeq(queue, NotCompleted)
\* clear_completed, line 224: removed is counted on the new self.queue
ClearCompletedResult == Len(SelectSeq(ClearCompletedQueue, IsCompleted))

\* clear_completed (queue_manager.py:211-226)
clear_completed_locked(c) ==
    /\ cpc[c] = "idle"
    /\ lock = 0
    /\ queue' = ClearCompletedQueue
    /\ UNCHANGED <<current_item, paused, stop_event, fields, workers, callers,
                   executor, exec_log, behind, pause_hist, retry_from,
                   download_manager, next_id>>
clear_completed(c) == clear_completed_locked(c) /\ UNCHANGED <<ret, removed, notes>>
clear_completed_returns(c) ==
    /\ ret' = <<"clear_completed", 0, ClearCompletedResult>>
    /\ UNCHANGED <<removed, notes>>
    /\ clear_completed_locked(c)

\* ---- _start_worker, run by the caller of add_item or resume ----

\* add_item, lines 108-109, or resume, lines 160-161, and _start_worker,
\* lines 230-231.  The caller reads "no worker thread or not is_alive()"
\* twice in a row and returns when either read finds a live worker; nothing
\* is written between the reads, so every outcome is that of one read made
\* at the time of the second.
start_worker_check(c) ==
    /\ cpc[c] = "sw_check"
    /\ cpc' = [cpc EXCEPT ![c] = IF NoLiveWorker THEN "sw_clear" ELSE "idle"]
    /\ UNCHANGED <<store, fields, workers, carg, lock, executor, history,
                   download_manager, next_id>>

\* _start_worker, line 233: self._stop_event.clear()
start_worker_clear(c) ==
    /\ cpc[c] = "sw_clear"
    /\ stop_event' = FALSE
    /\ stop_for' = 0
    /\ cpc' = [cpc EXCEPT ![c] = "sw_new"]
    /\ UNCHANGED <<queue, current_item, paused, fields, workers, carg, lock,
                   executor, exec_log, behind, pause_hist, retry_from, ret,
                   removed, fired, notified, download_manager, next_id>>

\* _start_worker, line 234: self._worker_thread = threading.Thread(...).
\* The new thread object takes the first slot whose thread has terminated
\* (slots are interchangeable); a thread object that was never started and
\* is no longer referenced is dropped.
start_worker_new(c) ==
    /\ cpc[c] = "sw_new"
    /\ \E w \in Workers :
        /\ wpc[w] = "dead"
        /\ \A x \in Workers : wpc[x] = "dead" => w <= x
        /\ wpc' = [x \in Workers |->
                IF x = w THEN "new"
                ELSE IF x = worker_thread /\ wpc[x] = "new" THEN "dead"
                ELSE wpc[x]]
        /\ worker_thread' = w
    /\ cpc' = [cpc EXCEPT ![c] = "sw_start"]
    /\ UNCHANGED <<store, fields, witem, carg, lock, executor, history,
                   download_manager, next_id>>

\* _start_worker, line 235: self._worker_thread.start().  The attribute is
\* read again: start() of a thread that was already started raises
\* RuntimeError, which leaves add_item or resume.
start_worker_start(c) ==
    /\ cpc[c] = "sw_start"
    /\ wpc' = IF wpc[worker_thread] = "new"
              THEN [wpc EXCEPT ![worker_thread] = "check_stop"]
              ELSE wpc
    /\ cpc' = [cpc EXCEPT ![c] = "idle"]
    /\ UNCHANGED <<store, fields, witem, worker_thread, carg, lock, executor,
                   history, download_manager, next_id>>

\* ---- _worker_loop and _process_item (worker threads) ----

Goto(w, pc) == wpc' = [wpc EXCEPT ![w] = pc]

\* _worker_loop, lines 241-242
worker_check_stop(w) ==
    /\ wpc[w] = "check_stop"
    /\ Goto(w, IF stop_event THEN "exiting" ELSE "check_paused")
    /\ UNCHANGED <<store, fields, witem, worker_thread, callers, executor,
                   history, download_manager, next_id>>

\* _worker_loop, lines 245-247: the flag is read without the lock
worker_check_paused(w) ==
    /\ wpc[w] = "check_paused"
    /\ Goto(w, IF paused THEN "check_stop" ELSE "pop")
    /\ UNCHANGED <<store, fields, witem, worker_thread, callers, executor,
                   history, download_manager, next_id>>

\* _worker_loop, lines 250-254
worker_pop(w) ==
    /\ wpc[w] = "pop"
    /\ lock = 0
    /\ IF queue = <<>>
         THEN /\ Goto(w, "exiting")
              /\ UNCHANGED <<queue, current_item, witem, behind>>
         ELSE /\ current_item' = Head(queue)
              /\ witem' = [witem EXCEPT ![w] = Head(queue)]
              /\ queue' = Tail(queue)
              /\ behind' = [behind EXCEPT ![w] = Range(Tail(queue))]
              /\ Goto(w, "check_cancelled")
    /\ UNCHANGED <<paused, stop_event, fields, worker_thread, callers,
                   executor, exec_log, pause_hist, retry_from, ret, removed, notes,
                   download_manager, next_id>>

\* _worker_loop, lines 256-257
worker_check_cancelled(w) ==
    /\ wpc[w] = "check_cancelled"
    /\ IF status[witem[w]] = CANCELLED
         THEN /\ Goto(w, "check_stop")
              /\ witem' = [witem EXCEPT ![w] = 0]
              /\ behind' = [behind EXCEPT ![w] = {}]
         ELSE Goto(w, "process") /\ UNCHANGED <<witem, behind>>
    /\ UNCHANGED <<store, fields, worker_thread, callers, executor,
                   exec_log, pause_hist, retry_from, ret, removed, notes,
                   download_manager, next_id>>

\* _process_item, lines 275-283
process_item(w) ==
    /\ wpc[w] = "process"
    /\ IF ~download_manager
         THEN /\ Goto(w, "clear_current")
              /\ behind' = [behind EXCEPT ![w] = {}]
              /\ UNCHANGED <<status, download_complete>>
         ELSE /\ status' = [status EXCEPT ![witem[w]] = DOWNLOADING]
              /\ download_complete' = [download_complete EXCEPT ![witem[w]] = FALSE]
              /\ Goto(w, "start_download")
              /\ UNCHANGED behind
    /\ UNCHANGED <<store, progress, error_message, file_path, url, witem,
                   worker_thread, callers, dl, active_downloads, exec_log,
                   pause_hist, retry_from, ret, removed, notes, download_manager,
                   next_id>>

\* download_manager.py:181 and 259 call on_complete(success, message): the
\* file_path parameter of complete_callback keeps its default
PassedPath == None

\* complete_callback (queue_manager.py:291-307), up to the call of the item's
\* own on_complete
CompleteStatus(j, success) ==
    [status EXCEPT ![j] = IF success THEN COMPLETED ELSE ERROR]
CompleteProgress(j, success) ==
    [progress EXCEPT ![j] = IF success THEN 100 ELSE 0]
CompleteFilePath(j, success) ==
    IF success THEN [file_path EXCEPT ![j] = PassedPath] ELSE file_path
CompleteError(j, success, msg) ==
    IF success THEN error_message ELSE [error_message EXCEPT ![j] = msg]

\* _process_item, lines 312-319, and start_download_thread,
\* download_manager.py:178-263.  A URL already registered is rejected by
\* calling on_complete(False, ...) in the worker thread, which first writes
\* the status (queue_manager.py:302).  Else the download thread is created
\* and started, or Thread.start() raises and line 333 writes the status.
start_download_thread(w) ==
    /\ wpc[w] = "start_download"
    /\ exec_log' = Append(exec_log, witem[w])
    /\ behind' = [behind EXCEPT ![w] = {}]
    /\ IF url[witem[w]] \in active_downloads
         THEN /\ status' = CompleteStatus(witem[w], FALSE)
              /\ pause_hist' = HistForget(witem[w])
              /\ fired' = Fired(witem[w])
              /\ Goto(w, "reject_fields")
              /\ UNCHANGED dl
         ELSE \/ /\ dl' = [dl EXCEPT ![witem[w]] = "running"]
                 /\ Goto(w, "register")
                 /\ UNCHANGED <<status, pause_hist, fired>>
              \/ /\ status' = [status EXCEPT ![witem[w]] = ERROR]
                 /\ Goto(w, "except_message")
                 /\ UNCHANGED <<dl, pause_hist, fired>>
    /\ UNCHANGED <<store, progress, error_message, file_path, url, witem,
                   worker_thread, callers, download_complete,
                   active_downloads, retry_from, ret, removed, notified,
                   stop_for, download_manager, next_id>>

\* a rejection that does not return: the download thread is started too
reject_fields_and_start(w) ==
    /\ wpc[w] = "reject_fields"
    /\ progress' = CompleteProgress(witem[w], FALSE)
    /\ error_message' = CompleteError(witem[w], FALSE, MsgInProgress)
    /\ notified' = Notified(witem[w], FALSE)
    /\ download_complete' = [download_complete EXCEPT ![witem[w]] = TRUE]
    /\ dl' = [dl EXCEPT ![witem[w]] = "running"]
    /\ Goto(w, "register")
    /\ UNCHANGED <<store, status, file_path, url, witem, worker_thread,
                   callers, active_downloads, exec_log, behind,
                   pause_hist, retry_from, ret, removed, fired, stop_for,
                   download_manager, next_id>>

\* complete_callback called by the rejection, queue_manager.py:303-309
reject_fields(w) ==
    /\ wpc[w] = "reject_fields"
    /\ progress' = CompleteProgress(witem[w], FALSE)
    /\ error_message' = CompleteError(witem[w], FALSE, MsgInProgress)
    /\ notified' = Notified(witem[w], FALSE)
    /\ download_complete' = [download_complete EXCEPT ![witem[w]] = TRUE]
    /\ Goto(w, "wait_done")
    /\ UNCHANGED <<store, status, file_path, url, witem, worker_thread,
                   callers, dl, active_downloads, exec_log, behind,
                   pause_hist, retry_from, ret, removed, fired, stop_for,
                   download_manager, next_id>>

\* an except block that lets the exception leave _worker_loop
except_message_raises(w) ==
    /\ wpc[w] = "except_message"
    /\ error_message' = [error_message EXCEPT ![witem[w]] = MsgCantStart]
    /\ notified' = Notified(witem[w], FALSE)
    /\ Goto(w, "exiting")
    /\ UNCHANGED <<store, status, progress, file_path, url, witem,
                   worker_thread, callers, executor, exec_log, behind,
                   pause_hist, retry_from, ret, removed, fired, stop_for,
                   download_manager, next_id>>

\* _process_item, lines 334-336: the exception's text is recorded
except_message(w) ==
    /\ wpc[w] = "except_message"
    /\ error_message' = [error_message EXCEPT ![witem[w]] = MsgCantStart]
    /\ notified' = Notified(witem[w], FALSE)
    /\ Goto(w, "clear_current")
    /\ UNCHANGED <<store, status, progress, file_path, url, witem,
                   worker_thread, callers, executor, exec_log, behind,
                   pause_hist, retry_from, ret, removed, fired, stop_for,
                   download_manager, next_id>>

\* start_download_thread, download_manager.py:264
register_download(w) ==
    /\ wpc[w] = "register"
    /\ active_downloads' = active_downloads \cup {url[witem[w]]}
    /\ Goto(w, "wait_done")
    /\ UNCHANGED <<store, fields, witem, worker_thread, callers, dl,
                   download_complete, history, download_manager, next_id>>

\* a wait loop that ends the worker when the job has failed
wait_done_fatal(w) ==
    /\ wpc[w] = "wait_done"
    /\ Goto(w, IF ~download_complete[witem[w]] THEN "wait_stop"
                ELSE IF status[witem[w]] = ERROR THEN "exiting"
                ELSE "clear_current")
    /\ UNCHANGED <<store, fields, witem, worker_thread, callers, executor,
                   history, download_manager, next_id>>

\* _process_item, line 322
wait_done(w) ==
    /\ wpc[w] = "wait_done"
    /\ Goto(w, IF download_complete[witem[w]] THEN "clear_current" ELSE "wait_stop")
    /\ UNCHANGED <<store, fields, witem, worker_thread, callers, executor,
                   history, download_manager, next_id>>

\* _process_item, lines 323-325
wait_stop(w) ==
    /\ wpc[w] = "wait_stop"
    /\ IF stop_event
         THEN /\ status' = [status EXCEPT ![witem[w]] = CANCELLED]
              /\ Goto(w, "clear_current")
         ELSE /\ Goto(w, "wait_paused")
              /\ UNCHANGED status
    /\ UNCHANGED <<store, progress, error_message, file_path, url, witem,
                   worker_thread, callers, executor, history,
                   download_manager, next_id>>

\* _process_item, lines 326-329
wait_paused(w) ==
    /\ wpc[w] = "wait_paused"
    /\ IF paused
         THEN /\ status' = [status EXCEPT ![witem[w]] = PAUSED]
              /\ Goto(w, "clear_current")
         ELSE /\ Goto(w, "wait_done")
              /\ UNCHANGED status
    /\ UNCHANGED <<store, progress, error_message, file_path, url, witem,
                   worker_thread, callers, executor, history,
                   download_manager, next_id>>

\* _worker_loop, lines 263-264
clear_current(w) ==
    /\ wpc[w] = "clear_current"
    /\ lock = 0
    /\ current_item' = 0
    /\ Goto(w, "check_stop")
    /\ witem' = [witem EXCEPT ![w] = 0]
    /\ UNCHANGED <<queue, paused, stop_event, fields, worker_thread,
                   callers, executor, history, download_manager, next_id>>

\* _worker_loop, line 266: the loop was left, the thread ends
worker_exit(w) ==
    /\ wpc[w] = "exiting"
    /\ Goto(w, "dead")
    /\ UNCHANGED <<store, fields, witem, worker_thread, callers, executor, history,
                   download_manager, next_id>>

\* ---- the download thread of a job (download_manager.py:184-259) ----

\* progress_callback (queue_manager.py:285-289), called by the progress hook
progress_callback(j, percent) ==
    /\ dl[j] = "running"
    /\ progress[j] # percent
    /\ progress' = [progress EXCEPT ![j] = percent]
    /\ UNCHANGED <<store, status, error_message, file_path, url, workers,
                   callers, executor, history, download_manager, next_id>>

\* download_worker's finally block, download_manager.py:252-259, and
\* complete_callback, queue_manager.py:293-302: the status is written first
complete_callback(j, success) ==
    /\ dl[j] = "running"
    /\ active_downloads' = active_downloads \ {url[j]}
    /\ status' = CompleteStatus(j, success)
    /\ pause_hist' = HistForget(j)
    /\ fired' = Fired(j)
    /\ dl' = [dl EXCEPT ![j] = IF success THEN "ok" ELSE "failed"]
    /\ UNCHANGED <<store, progress, error_message, file_path, url, workers,
                   callers, download_complete, exec_log, behind, retry_from,
                   ret, removed, notified, stop_for, download_manager, next_id>>

\* complete_callback, queue_manager.py:299-300 and 303-307: the other fields
complete_fields(j) ==
    /\ dl[j] \in {"ok", "failed"}
    /\ progress' = CompleteProgress(j, dl[j] = "ok")
    /\ file_path' = CompleteFilePath(j, dl[j] = "ok")
    /\ error_message' = CompleteError(j, dl[j] = "ok", MsgFailed)
    /\ notified' = Notified(j, dl[j] = "ok")
    /\ dl' = [dl EXCEPT ![j] = "reported"]
    /\ UNCHANGED <<store, status, url, workers, callers, download_complete,
                   active_downloads, exec_log, behind, pause_hist, retry_from,
                   ret, removed, fired, stop_for, download_manager, next_id>>

\* complete_callback, queue_manager.py:309: download_complete.set()
complete_set(j) ==
    /\ dl[j] = "reported"
    /\ download_complete' = [download_complete EXCEPT ![j] = TRUE]
    /\ dl' = [dl EXCEPT ![j] = "none"]
    /\ UNCHANGED <<store, fields, workers, callers, active_downloads,
                   history, download_manager, next_id>>

\* ---- the specifications ----

\* every operation of the facade, and the steps that finish one
Facade(c) ==
    \/ set_download_manager(c)
    \/ (next_id <= MaxJobs /\ \E u \in Urls : add_item(c, u))
    \/ \E id \in Jobs : get_item(c, id)
    \/ get_all_items(c)
    \/ pause(c)
    \/ resume(c) \/ resume_clear(c)
    \/ \E id \in Jobs : retry_item(c, id)
    \/ \E id \in Jobs : remove_item(c, id)
    \/ clear_completed(c)
    \/ start_worker_check(c) \/ start_worker_clear(c)
    \/ start_worker_new(c) \/ start_worker_start(c)

\* the operations that start a worker
Starters(c) ==
    \/ set_download_manager(c)
    \/ (next_id <= MaxJobs /\ \E u \in Urls : add_item(c, u))
    \/ resume(c) \/ resume_clear(c)
    \/ start_worker_check(c) \/ start_worker_clear(c)
    \/ start_worker_new(c) \/ start_worker_start(c)

WorkerThreads ==
    \E w \in Workers :
        \/ worker_check_stop(w) \/ worker_check_paused(w) \/ worker_pop(w)
        \/ worker_check_cancelled(w) \/ process_item(w)
        \/ start_download_thread(w) \/ register_download(w)
        \/ reject_fields(w) \/ except_message(w)
        \/ wait_done(w) \/ wait_stop(w) \/ wait_paused(w)
        \/ clear_current(w) \/ worker_exit(w)

ProgressReports == \E j \in Items : \E p \in Percents : progress_callback(j, p)

DownloadThreads ==
    \E j \in Items :
        \/ \E ok \in BOOLEAN : complete_callback(j, ok)
        \/ complete_fields(j)
        \/ complete_set(j)

\* The program as main.py runs it: the facade is called by one thread (the
\* Tk main loop, whose handlers call add_item, pause, resume, retry_item,
\* remove_item and clear_completed), next to the worker and download threads.
Next ==
    \/ Facade(MainThread)
    \/ WorkerThreads
    \/ ProgressReports
    \/ DownloadThreads
Spec == Init /\ [][Next]_vars

\* The facade called by two threads at once: both add items and resume.
ConcurrentNext ==
    \/ \E c \in Callers : Starters(c)
    \/ WorkerThreads
    \/ DownloadThreads
ConcurrentSpec == Init /\ [][ConcurrentNext]_vars

\* The facade called by the main thread, which keeps what the calls return.
Observed(c) ==
    \/ set_download_manager(c)
    \/ (next_id <= MaxJobs /\ \E u \in Urls : add_item(c, u))
    \/ \E id \in Jobs : get_item(c, id)
    \/ get_all_items_returns(c)
    \/ pause(c)
    \/ resume(c) \/ resume_clear(c)
    \/ \E id \in Jobs : retry_item(c, id)
    \/ \E id \in Jobs : remove_item(c, id)
    \/ clear_completed(c)
    \/ start_worker_check(c) \/ start_worker_clear(c)
    \/ start_worker_new(c) \/ start_worker_start(c)
CallNext ==
    \/ Observed(MainThread)
    \/ WorkerThreads
    \/ DownloadThreads
CallSpec == Init /\ [][CallNext]_vars

\* The main thread only adds jobs and removes them, and keeps what
\* remove_item returns; up to MaxItems jobs are added.
Removing(c) ==
    \/ set_download_manager(c)
    \/ \E u \in Urls : add_item(c, u)
    \/ \E id \in Items : remove_item_returns(c, id)
    \/ start_worker_check(c) \/ start_worker_clear(c)
    \/ start_worker_new(c) \/ start_worker_start(c)
RemoveNext ==
    \/ Removing(MainThread)
    \/ WorkerThreads
    \/ DownloadThreads
RemoveSpec == Init /\ [][RemoveNext]_vars

\* The main thread adds jobs, pauses and resumes: no retry_item and no
\* remove_item.
Pausing(c) ==
    \/ set_download_manager(c)
    \/ (next_id <= MaxJobs /\ \E u \in Urls : add_item(c, u))
    \/ pause(c)
    \/ resume(c) \/ resume_clear(c)
    \/ start_worker_check(c) \/ start_worker_clear(c)
    \/ start_worker_new(c) \/ start_worker_start(c)
PauseNext ==
    \/ Pausing(MainThread)
    \/ WorkerThreads
    \/ DownloadThreads
PauseSpec == Init /\ [][PauseNext]_vars

\* clear_completed as a function of the store it is given: a pending
\* sequence of distinct items, each with any status (the items are plain
\* objects that get_item and get_all_items hand out), and no thread running.
Stores ==
    {q \in UNION {[1..n -> Items] : n \in 0..MaxItems} :
        \A i, k \in DOMAIN q : i # k => q[i] # q[k]}
StoreInit ==
    /\ queue \in Stores
    /\ status \in [Items -> DownloadStatus]
    /\ next_id = MaxItems + 1
    /\ current_item = 0
    /\ lock = 0
    /\ paused = FALSE
    /\ stop_event = FALSE
    /\ worker_thread = 0
    /\ download_manager = TRUE
    /\ progress = [j \in Items |-> 0]
    /\ error_message = [j \in Items |-> None]
    /\ file_path = [j \in Items |-> None]
    /\ url = [j \in Items |-> 1]
    /\ wpc = [w \in Workers |-> "dead"]
    /\ witem = [w \in Workers |-> 0]
    /\ cpc = [c \in Callers |-> "idle"]
    /\ carg = [c \in Callers |-> 0]
    /\ dl = [j \in Items |-> "none"]
    /\ download_complete = [j \in Items |-> FALSE]
    /\ active_downloads = {}
    /\ exec_log = <<>>
    /\ behind = [w \in Workers |-> {}]
    /\ pause_hist = [j \in Items |-> "no"]
    /\ retry_from = [c \in Callers |-> None]
    /\ ret = <<>>
    /\ removed = {}
    /\ fired = [j \in Items |-> 0]
    /\ notified = [j \in Items |-> <<>>]
    /\ stop_for = 0
StoreNext == clear_completed_returns(MainThread)
StoreSpec == StoreInit /\ [][StoreNext]_vars

\* A thread that can take its next step takes it: the steps of a facade
\* call that has begun, of a started worker and of a download thread.
CallerContinues(c) ==
    \/ resume_clear(c)
    \/ start_worker_check(c) \/ start_worker_clear(c)
    \/ start_worker_new(c) \/ start_worker_start(c)
    \/ (cpc[c] = "retry_get_item" /\ retry_item(c, carg[c]))
Fairness ==
    /\ \A c \in Callers : WF_vars(CallerContinues(c))
    /\ WF_vars(WorkerThreads)
    /\ WF_vars(DownloadThreads)
FairSpec == Spec /\ Fairness

\* The same without the progress reports, which write item.progress only;
\* no thread reads it.
QuietNext ==
    \/ Facade(MainThread)
    \/ WorkerThreads
    \/ DownloadThreads
FairQuietSpec == Init /\ [][QuietNext]_vars /\ Fairness

\* ---- claims ----

\* C1: in every reachable state at most one job has status DOWNLOADING.
AtMostOneDownloading ==
    Cardinality({j \in Jobs : status[j] = DOWNLOADING}) <= 1

\* executor invocations in flight: the download thread was started and its
\* completion callback has not fired
InFlight == {j \in Jobs : dl[j] = "running"}

\* C2: at any instant at most one executor invocation is in flight; the
\* worker starts no executor while that of a job paused or cancelled
\* mid-flight is still running.
AtMostOneInFlight == Cardinality(InFlight) <= 1

\* C3: jobs are handed to the executor in the order of the pending sequence:
\* no job is handed over while a job that was pending ahead of it has been
\* popped and is still waiting to be handed over.
FifoInvocation ==
    [][\A w \in Workers :
        (wpc[w] = "start_download" /\ wpc'[w] # "start_download")
            => \A v \in Workers : witem[w] \notin behind[v]]_vars

\* C4: once pause() has returned and until resume() is called, no job goes
\* from QUEUED to DOWNLOADING.
NoStartWhilePaused ==
    [][paused => \A j \in Jobs :
            status[j] = QUEUED => status'[j] # DOWNLOADING]_vars

\* C5: a job that was the current job when pause() was called, and whose
\* executor has not reported yet, stays in the store until resume() is
\* called: get_item returns it and get_all_items contains it.
PausedJobKept ==
    \A j \in Jobs :
        (pause_hist[j] = "paused" /\ dl[j] = "running")
            => (GetItem(j) = j /\ j \in Range(GetAllItems))

Invocations(j) == Cardinality({i \in DOMAIN exec_log : exec_log[i] = j})
WorkerPops == \E w \in Workers : wpc[w] = "pop" /\ wpc'[w] = "check_cancelled"

\* C6: after pause() during a job's download and then resume(), the executor
\* is not invoked again for that job, and no worker pops another job before
\* the job's completion callback has fired.
ResumeWaitsForJob ==
    /\ [](\A j \in Jobs : pause_hist[j] = "resumed" => Invocations(j) <= 1)
    /\ [][(\E j \in Jobs : pause_hist[j] = "resumed" /\ dl[j] = "running")
            => ~WorkerPops]_vars

RetryCalled(j) == \E c \in Callers : cpc[c] = "retry_get_item" /\ carg[c] = j
RetryCalledOnError(j) ==
    \E c \in Callers :
        cpc[c] = "retry_get_item" /\ carg[c] = j /\ retry_from[c] = ERROR
Requeued(j) ==
    /\ ~RetryCalled(j)
    /\ status[j] = QUEUED /\ progress[j] = 0 /\ error_message[j] = None
    /\ queue # <<>> /\ queue[Len(queue)] = j
    /\ Cardinality({i \in DOMAIN queue : queue[i] = j}) = 1

\* C7: retry_item on a job with status ERROR ends, and then the job is
\* QUEUED with progress 0 and no error message, and is in the pending
\* sequence exactly once, at its tail.
RetryOfErrorRequeues ==
    \A j \in Jobs : RetryCalledOnError(j) ~> Requeued(j)

\* C8: every facade operation returns and leaves the lock released: no
\* caller waits for the lock in a state where the wait cannot end, that is
\* while the lock is held by the waiting caller itself.
LockWaitEnds ==
    \A c \in Callers : cpc[c] = "retry_get_item" => lock # c

HandedOver(j) == \E w \in Workers : wpc[w] = "start_download" /\ witem[w] = j

\* C9: after retry_item on a job of the store, the job is handed to the
\* executor again without a further add_item or resume, unless the queue
\* is paused.
RetryRunsAgain ==
    \A j \in Jobs :
        (RetryCalled(j) /\ GetItem(j) = j /\ ~HandedOver(j))
            ~> (HandedOver(j) \/ paused)

AllCallersIdle == \A c \in Callers : cpc[c] = "idle"
NoWorkerAlive == \A w \in Workers : ~is_alive(w)

\* C10: a job accepted by add_item is never left pending with no worker
\* alive: when the queue is not paused, no stop was signalled and no facade
\* call is under way, a pending job has a live worker to pop it.
PendingHasWorker ==
    (queue # <<>> /\ ~paused /\ ~stop_event /\ AllCallersIdle /\ lock = 0)
        => ~NoWorkerAlive

\* C11: remove_item(id) for an id that is neither pending nor the current
\* job returns False and changes nothing of the store: the pending
\* sequence, the current reference, the paused flag, the stop signal and
\* the fields of every job stay as they were.
RemoveAbsentNoEffect ==
    [][\A id \in Items :
        (remove_item_returns(MainThread, id) /\ GetItem(id) = 0)
            => (ret' = <<"remove_item", id, FALSE>> /\ UNCHANGED <<store, fields>>)]_vars

\* remove_item has answered False for a job that left the store, while
\* another job is pending
RemoveAbsentSeen ==
    \E id \in Created :
        /\ ret = <<"remove_item", id, FALSE>>
        /\ GetItem(id) = 0
        /\ queue # <<>>

\* the sequence without the entries equal to id, the others in their order
Without(s, id) == LET Other(x) == x # id IN SelectSeq(s, Other)

\* C12: remove_item(id) for a pending job returns True, removes exactly
\* that job, keeps the order of the other pending jobs, does not set the
\* stop signal, and no worker hands the removed job to the executor later.
RemovePendingOnly ==
    [][/\ \A id \in Items :
            (remove_item_returns(MainThread, id) /\ id \in Range(queue))
                => /\ ret' = <<"remove_item", id, TRUE>>
                   /\ queue' = Without(queue, id)
                   /\ UNCHANGED <<current_item, paused, stop_event, fields>>
       /\ \A w \in Workers :
            (wpc[w] = "start_download" /\ start_download_thread(w))
                => witem[w] \notin removed]_vars

\* remove_item has answered True for the second of three pending jobs
RemovePendingSeen ==
    /\ ret = <<"remove_item", 2, TRUE>>
    /\ 2 \in removed
    /\ queue = <<1, 3>>

\* the worker is in the wait loop of _process_item for job j
WaitedOn(j) ==
    \E w \in Workers :
        witem[w] = j /\ wpc[w] \in {"wait_done", "wait_stop", "wait_paused"}

\* C13: after remove_item has cancelled the current job, the worker's next
\* poll ends the wait whatever resume() or add_item did in between: while
\* the worker waits on a job whose status is CANCELLED and whose executor
\* has not reported, the stop signal is still set.
CancelReachesWorker ==
    \A j \in Jobs :
        (WaitedOn(j) /\ status[j] = CANCELLED /\ dl[j] = "running") => stop_event

\* C14: a completion callback that fires for a job already marked CANCELLED
\* or PAUSED changes neither its status nor its progress, error message or
\* file path.
LateCallbackIgnored ==
    [][\A j \in Jobs :
        (status[j] \in {CANCELLED, PAUSED} /\ dl[j] # "none" /\ dl'[j] # dl[j])
            => /\ status'[j] = status[j]
               /\ progress'[j] = progress[j]
               /\ error_message'[j] = error_message[j]
               /\ file_path'[j] = file_path[j]]_vars

CompletedHasFilePath ==
    \A j \in Jobs : status[j] = COMPLETED => file_path[j] # None

\* C17: a job with status ERROR has an error message.
ErrorHasMessage ==
    \A j \in Jobs : status[j] = ERROR => error_message[j] # None

\* C18: when the executor has reported success for a job that is being
\* waited on, and the wrapper has recorded the result, get_item finds the
\* job, with status COMPLETED, progress 100 and the file path passed.
ResultFindable ==
    [][\A j \in Jobs :
        (dl[j] = "ok" /\ dl'[j] = "reported" /\ WaitedOn(j))
            => /\ j \in Range(queue') \/ current_item' = j
               /\ status'[j] = COMPLETED
               /\ progress'[j] = 100
               /\ file_path'[j] = PassedPath]_vars

\* a caller has changed the course of the worker: the queue is paused, the
\* stop signal is set, or retry_item holds the lock
Interfered == paused \/ stop_event \/ lock # 0

\* job k has left the pending sequence without being popped
TakenAway(k) == k \notin Range(queue) /\ \A w \in Workers : witem[w] # k

\* C19: a job ending in ERROR does not stop the worker: when the executor
\* reports the failure of the job the worker waits on while job k is the
\* next pending job, the worker goes on to hand k to the executor, unless
\* a caller pauses the queue, signals a stop, blocks the lock or removes k.
ErrorKeepsWorker ==
    \A k \in Jobs :
        ((\E j \in Jobs : dl[j] = "failed" /\ WaitedOn(j))
            /\ queue # <<>> /\ Head(queue) = k /\ ~Interfered)
        ~> (k \in Range(exec_log) \/ Interfered \/ TakenAway(k))

\* the first job has failed and the second was handed to the executor after
\* it, with no caller interfering
NextRanAfterError ==
    /\ exec_log = <<1, 2>>
    /\ status[1] = ERROR /\ error_message[1] = MsgFailed
    /\ ~Interfered

\* C20: get_all_items returns a new list: the current job, if any, first,
\* then the pending jobs in the order they were added; a list that was
\* returned changes only when a later call returns another.
ListedCurrentFirst ==
    /\ [](\A i, k \in DOMAIN queue : i < k => queue[i] < queue[k])
    /\ [][get_all_items_returns(MainThread)
            => ret' = <<"get_all_items", 0,
                        IF current_item = 0 THEN queue
                        ELSE <<current_item>> \o queue>>]_vars
    /\ [][ret' # ret => get_all_items_returns(MainThread)]_vars

\* get_all_items has returned [J1, J2] with J1 downloading and J2, added
\* before J1's completion callback, queued
ListedWhileDownloading ==
    /\ ret = <<"get_all_items", 0, <<1, 2>>>>
    /\ current_item = 1 /\ queue = <<2>>
    /\ status[1] = DOWNLOADING /\ status[2] = QUEUED
    /\ dl[1] = "running"

\* C21: while a job's status is DOWNLOADING its progress does not decrease
\* from one state to the next, whatever the progress reports are.
ProgressMonotonic ==
    [][\A j \in Jobs :
        (status[j] = DOWNLOADING /\ status'[j] = DOWNLOADING)
            => progress'[j] >= progress[j]]_vars

\* the steps of the worker loop that read the paused flag
ReadsPaused(w) == worker_check_paused(w) \/ wait_paused(w)

\* C23: the store is read and written only by a thread that holds the
\* lock: no thread reads the paused flag while another thread holds it.
StoreAccessLocked ==
    [][\A w \in Workers : ReadsPaused(w) => lock = 0]_vars

\* C25: the executor is not invoked for a job whose status is CANCELLED.
NoExecutorForCancelled ==
    [][\A w \in Workers :
        (wpc[w] = "start_download" /\ start_download_thread(w))
            => status[witem[w]] # CANCELLED]_vars

\* start_download_thread rejects the job worker w hands over
Rejects(w) ==
    /\ wpc[w] = "start_download"
    /\ url[witem[w]] \in active_downloads
    /\ start_download_thread(w)

\* C22: every call of start_download_thread leads to exactly one call of
\* the completion callback: never more calls than invocations; the
\* rejection calls it before it returns; a download thread that was
\* started calls it in the end, on success and on failure.
CallbackExactlyOnce ==
    /\ [](\A j \in Jobs : fired[j] <= Invocations(j))
    /\ [][\A w \in Workers :
            Rejects(w) => fired'[witem[w]] = fired[witem[w]] + 1]_vars
    /\ \A j \in Jobs :
            dl[j] = "running"
                ~> (dl[j] # "running" /\ fired[j] = Invocations(j))

\* both jobs were handed over once and their callbacks fired once: the
\* first download succeeded, the second job was rejected
CalledBackOnce ==
    /\ exec_log = <<1, 2>>
    /\ fired[1] = 1 /\ fired[2] = 1
    /\ status[1] = COMPLETED
    /\ status[2] = ERROR /\ error_message[2] = MsgInProgress
    /\ \A j \in Jobs : dl[j] = "none"

\* C24: without retry_item and remove_item, the completion callbacks fire
\* in the order of submission: when the callback of job k fires, the
\* executor of no job submitted before k is still running.
CompletionInOrder ==
    [][\A j, k \in Jobs :
        (j < k /\ fired'[k] > fired[k]) => dl[j] # "running"]_vars

\* the call of start_download_thread by worker w has raised
Raised(w) == wpc[w] = "except_message"

\* C26: when the call of the executor raises, the worker writes status
\* ERROR, then the exception's text, calls item.on_complete with success
\* False and goes on in its loop, to the statement that clears the current
\* reference, and hands the next pending job k to the executor, unless a
\* caller pauses the queue, signals a stop, blocks the lock or removes k.
ExecutorRaiseHandled ==
    /\ [][\A w \in Workers :
            (wpc[w] = "start_download" /\ Raised(w)')
                => status'[witem[w]] = ERROR]_vars
    /\ [][\A w \in Workers :
            (Raised(w) /\ ~Raised(w)')
                => /\ error_message'[witem[w]] = MsgCantStart
                   /\ notified'[witem[w]] = Append(notified[witem[w]], FALSE)
                   /\ wpc'[w] = "clear_current"]_vars
    /\ \A k \in Jobs :
            ((\E w \in Workers : Raised(w))
                /\ queue # <<>> /\ Head(queue) = k /\ ~Interfered)
            ~> (k \in Range(exec_log) \/ Interfered \/ TakenAway(k))

\* the call for the first job raised; the job is in ERROR with the text of
\* the exception, and the second job was handed over after it
NextRanAfterRaise ==
    /\ exec_log = <<1, 2>>
    /\ status[1] = ERROR /\ error_message[1] = MsgCantStart
    /\ notified[1] = <<FALSE>> /\ fired[1] = 0
    /\ current_item = 2
    /\ ~Interfered

\* a caller is in resume(), between line 155 and line 156
Resuming == \E c \in Callers : cpc[c] = "resume_clear"

\* C27: resume() leaves the paused flag and the stop signal clear, and
\* when a job k heads the pending sequence and no add_item can follow, a
\* worker pops k in the end, unless a caller pauses the queue again,
\* signals a stop after the resume, blocks the lock or removes k.
ResumeRestartsQueue ==
    /\ [][\A c \in Callers :
            (cpc[c] = "resume_clear" /\ cpc'[c] # "resume_clear")
                => (~paused' /\ ~stop_event')]_vars
    /\ \A k \in Jobs :
            (Resuming /\ queue # <<>> /\ Head(queue) = k /\ next_id > MaxJobs)
            ~> \/ k \notin Range(queue)
               \/ paused \/ lock # 0
               \/ (stop_event /\ ~Resuming)

\* remove_item has just cancelled the current job j
JustCancelled(j) ==
    current_item = j /\ stop_event /\ stop_for = j /\ status[j] = CANCELLED

\* C29: cancelling the current job does not strand the pending jobs: when
\* job k heads the pending sequence at that moment, the queue is not
\* paused and no add_item can follow, k is handed to the executor in the
\* end, unless a caller pauses the queue, calls resume, blocks the lock or
\* removes k.
CancelKeepsQueue ==
    \A k \in Jobs :
        ((\E j \in Jobs : JustCancelled(j))
            /\ queue # <<>> /\ Head(queue) = k
            /\ ~paused /\ download_manager /\ next_id > MaxJobs)
        ~> \/ k \in Range(exec_log)
           \/ paused \/ lock # 0 \/ Resuming
           \/ TakenAway(k)

\* C30: the stop signal remove_item(id) sets is consumed only by the wait
\* loop of job id: a wait loop that finds the signal set is that of the
\* job the signal was set for, and no other job becomes CANCELLED.
StopConsumedByOwner ==
    [][\A w \in Workers :
        (wpc[w] = "wait_stop" /\ stop_event /\ wait_stop(w))
            => (stop_for = witem[w] /\ status'[witem[w]] = CANCELLED)]_vars

\* the steps of _start_worker that add_item runs after the append
StartsWorker(c) ==
    \/ start_worker_check(c) \/ start_worker_clear(c)
    \/ start_worker_new(c) \/ start_worker_start(c)

\* C28: add_item appends one new job, QUEUED with progress 0, at the tail
\* of the pending sequence; the id is that of no job of the store; the
\* other pending jobs, the current job, the paused flag and the fields of
\* every existing job stay as they were, also in the steps of
\* _start_worker that follow and also when the queue is paused.
AddItemAppendsOnly ==
    /\ [][(\E u \in Urls : add_item(MainThread, u))
            => /\ queue' = Append(queue, next_id)
               /\ next_id \notin Range(queue) /\ next_id # current_item
               /\ status'[next_id] = QUEUED /\ progress'[next_id] = 0
               /\ UNCHANGED <<current_item, paused>>
               /\ \A j \in Created :
                    /\ status'[j] = status[j]
                    /\ progress'[j] = progress[j]
                    /\ error_message'[j] = error_message[j]
                    /\ file_path'[j] = file_path[j]
                    /\ url'[j] = url[j]]_vars
    /\ [][StartsWorker(MainThread)
            => UNCHANGED <<queue, current_item, paused, fields>>]_vars

\* the second job was appended while the queue was paused with the first
\* job current: the caller has not yet gone on to _start_worker
AddedWhilePaused ==
    /\ paused /\ cpc[MainThread] = "sw_check"
    /\ current_item = 1 /\ status[1] = PAUSED
    /\ queue = <<2>> /\ status[2] = QUEUED /\ progress[2] = 0

\* C31: at most one worker thread is alive at any time, also when add_item
\* and resume are called by different threads at once.
AtMostOneWorker ==
    Cardinality({w \in Workers : is_alive(w)}) <= 1

\* C32: whenever no worker thread is alive, the current reference is empty.
NoWorkerNoCurrent ==
    NoWorkerAlive => current_item = 0

Terminal == {COMPLETED, ERROR}

\* a retry_item call goes through lines 172-180
RetryWrites == \E c \in Callers : cpc[c] = "retry_get_item" /\ cpc'[c] = "idle"

\* C34: a terminal result is not overwritten: once a job's status is
\* COMPLETED or ERROR, no step other than one of retry_item changes it.
TerminalStatusKept ==
    [][\A j \in Jobs :
        status[j] \in Terminal => (status'[j] = status[j] \/ RetryWrites)]_vars

\* C35: no job disappears silently: a job that stops being the current
\* job without being pending has status COMPLETED, ERROR or CANCELLED.
NoSilentLoss ==
    [][\A j \in Jobs :
        (current_item = j /\ current_item' # j /\ j \notin Range(queue'))
            => status'[j] \in Terminal \cup {CANCELLED}]_vars

\* C36: the registry of active downloads agrees with the download
\* threads: a registered URL is that of a download thread that has not
\* fired its completion callback yet.
RegistryConsistent ==
    \A u \in active_downloads :
        \E j \in Jobs : url[j] = u /\ dl[j] = "running"
====
